---- MODULE Spec2Model ----
(***************************************************************************)
(* Provider session of ape-ganache: port resolution, connect / disconnect, *)
(* automatic port selection and subprocess start-up, chain manipulation    *)
(* (mine, snapshot, revert), error translation and the launch command of a *)
(* fork session (src/ape_ganache/provider.py, classes GanacheProvider and  *)
(* GanacheForkProvider).                                                   *)
(*                                                                         *)
(* Encoding of Python values:                                              *)
(*   port          an integer; NoPort (0) is the falsy value (None or 0),  *)
(*                 AUTO (-1) is the literal "auto"                         *)
(*   _web3         a record [port, ganache]; NoWeb3 is None; ganache is    *)
(*                 TRUE when the client-version check passed               *)
(*   process       {} is None, {p} a Popen handle launched on port p       *)
(*   exceptions    the class name as a string, "none" when nothing raised  *)
(*   str           a TLA+ string; the identifiers of snapshots are         *)
(*                 sequences of characters inside PyStr                    *)
(***************************************************************************)
EXTENDS Integers, Sequences, FiniteSets, TLC

VARIABLES
    port,               \* GanacheProvider.port
    web3,               \* Web3Provider._web3
    process,            \* SubprocessProvider.process
    attempted_ports,    \* GanacheProvider.attempted_ports
    provider_settings,  \* ProviderAPI.provider_settings (a dict)
    server_port,        \* settings.server.port (GanacheServerConfig.port)
    net,                \* what answers JSON-RPC on each TCP port of 127.0.0.1
    running,            \* ports of the live subprocesses this session spawned
    supplied,           \* history: the explicit port the caller last supplied
    ever_connected,     \* history: some connect() has returned without raising
    last,               \* history: the last call on the session and its outcome
    ganache,            \* the chain of the node the session is connected to
    snap,               \* history: the snapshot the caller took last
    clast,              \* history: the last chain call and its outcome
    payload,            \* the exception handed to get_virtual_machine_error
    verr,               \* the error get_virtual_machine_error returned for it
    fork_url,           \* upstream_provider.connection_str of a fork session
    peer,               \* a second session of the same host process
    chains,             \* the chain of the node running on each port
    acted,              \* history: the session that acted last and its call
    receipt,            \* the receipt get_call_tree is called for
    call_tree,          \* the call tree get_call_tree returned for it
    gens,               \* the generators get_transaction_trace has returned
    trace_requests      \* the debug_traceTransaction requests issued so far

session_vars ==
    <<port, web3, process, attempted_ports, provider_settings, server_port,
      net, running, supplied, ever_connected, last, fork_url>>

chain_vars == <<ganache, snap, clast>>

err_vars == <<payload, verr>>

multi_vars == <<peer, chains, acted>>

tree_vars == <<receipt, call_tree>>

trace_vars == <<gens, trace_requests>>

more_vars == <<multi_vars, tree_vars, trace_vars>>

vars == <<session_vars, chain_vars, err_vars, more_vars>>

---------------------------------------------------------------------------
(* Program constants *)

EPHEMERAL_PORTS_START == 49152
EPHEMERAL_PORTS_END == 60999
DEFAULT_PORT == 8545
max_attempts == 25
NoPort == 0
AUTO == -1
TestPort == 8555

UnknownId == 65535

(* Bounds of the model *)

PortSamples == 1
MaxAttempted == 2
MaxMinted == 3
MaxSnapshots == 2

---------------------------------------------------------------------------
(* Values *)

\* random.randint(EPHEMERAL_PORTS_START, EPHEMERAL_PORTS_END): both ends are
\* included; the model draws from the first PortSamples ports and the last one.
RandInt ==
    {p \in EPHEMERAL_PORTS_START .. EPHEMERAL_PORTS_END :
        p < EPHEMERAL_PORTS_START + PortSamples \/ p = EPHEMERAL_PORTS_END}

Ports == {DEFAULT_PORT, TestPort} \cup RandInt

NodeKinds == {"free", "ganache", "foreign"}

NoWeb3 == [port |-> NoPort, ganache |-> FALSE]

\* The session is not a fork session: it has no upstream provider
NoFork == ""

\* SubprocessError and its subclasses (exceptions.py 10-24; RPCTimeoutError is the
\* framework's SubprocessTimeoutError raised when the node never becomes ready).
IsSubprocessError(e) ==
    e \in {"SubprocessError", "GanacheSubprocessError", "GanacheNotInstalledError",
           "RPCTimeoutError"}

\* `x in list`
InList(x, list) == \E i \in DOMAIN list : list[i] = x

\* dict.pop(key)
Pop(d, key) == [k \in DOMAIN d \ {key} |-> d[k]]

\* dict.get(key) with None (NoPort) as the default
Get(d, key) == IF key \in DOMAIN d THEN d[key] ELSE NoPort

\* str.startswith
StartsWith(str_, prefix) ==
    Len(str_) >= Len(prefix) /\ SubSeq(str_, 1, Len(prefix)) = prefix

\* str.replace(old, new): every occurrence of old, from left to right
RECURSIVE Replace(_, _, _)
Replace(str_, old, new) ==
    IF Len(str_) = 0 THEN str_
    ELSE IF StartsWith(str_, old)
         THEN new \o Replace(SubSeq(str_, Len(old) + 1, Len(str_)), old, new)
         ELSE SubSeq(str_, 1, 1) \o Replace(SubSeq(str_, 2, Len(str_)), old, new)

\* The only port value that is a str is the literal "auto"; all others are int/None.
PortIsStr(p) == p = AUTO

\* f"{self.port}"
PortStr(p) == IF p = AUTO THEN "auto" ELSE ToString(p)

---------------------------------------------------------------------------
(* GanacheProvider.uri *)

UriRaises(p) == p = NoPort

uri(p) ==
    IF UriRaises(p)
    THEN "GanacheProviderError"
    ELSE "http://127.0.0.1:" \o PortStr(p)

---------------------------------------------------------------------------
\* The running computation of a call is a record s with the fields of the
\* session (port, web3, process, attempted, ps), the environment (net, running),
\* the pending exception (exc) and the history of the call (starts, spawned,
\* picked, att_at_pick, draws, retries).

\* What answers at http://127.0.0.1:<p>; "auto" is no port, nothing answers there.
Answers(n, p) == IF p \in DOMAIN n THEN n[p] ELSE "free"

\* Mutant of _set_web3: a node that is not Ganache is taken for an unreachable
\* port.
_set_web3_ForeignUnreachable(s) ==
    IF s.port = NoPort THEN s
    ELSE LET kind == Answers(s.net, s.port) IN
         IF kind = "ganache"
         THEN [s EXCEPT !.web3 = [port |-> s.port, ganache |-> TRUE]]
         ELSE [s EXCEPT !.web3 = NoWeb3]

\* GanacheProvider._set_web3; named is the port the ProviderError message names
_set_web3(s) ==
    IF s.port = NoPort THEN s
    ELSE LET kind == Answers(s.net, s.port) IN
         IF kind = "free" THEN [s EXCEPT !.web3 = NoWeb3]
         ELSE IF kind = "ganache"
              THEN [s EXCEPT !.web3 = [port |-> s.port, ganache |-> TRUE]]
              ELSE [s EXCEPT !.web3 = [port |-> s.port, ganache |-> FALSE],
                             !.exc = "ProviderError", !.named = s.port]

\* GanacheProvider.is_connected: the value returned when _set_web3 did not raise
Connected(s) == s.web3 # NoWeb3

---------------------------------------------------------------------------
(* Subprocess start-up *)

\* GanacheProvider.ganache_bin, read at the head of build_command: shutil.which
\* finds the executable or GanacheNotInstalledError is raised.
build_command(s, bin_found) ==
    IF bin_found THEN s
    ELSE [s EXCEPT !.exc = "GanacheNotInstalledError", !.not_found = @ + 1]

\* Mutant of fork_build_command: the upstream URL is not compared with the uri
\* of the session.
fork_build_command_NoCheck(s, bin_found) ==
    LET c == build_command([s EXCEPT !.built_uri = uri(s.port)], bin_found) IN
    IF c.exc # "none" THEN c ELSE [c EXCEPT !.fork_arg = s.fork_url]

\* GanacheForkProvider.build_command; built_uri is the uri of the session when
\* the command is built, fork_arg the argument of --fork.url in the command.
fork_build_command(s, bin_found) ==
    IF UriRaises(s.port) THEN [s EXCEPT !.exc = "GanacheProviderError"]
    ELSE IF Replace(s.fork_url, "localhost", "127.0.0.1") = uri(s.port)
    THEN [s EXCEPT !.exc = "GanacheProviderError", !.built_uri = uri(s.port)]
    ELSE LET c == build_command([s EXCEPT !.built_uri = uri(s.port)], bin_found) IN
         IF c.exc # "none" THEN c ELSE [c EXCEPT !.fork_arg = s.fork_url]

\* self.start(): SubprocessProvider.start as GanacheProvider._start calls it.
\* A live node already answering is attached to and the session stops managing
\* a process; otherwise the command is built (by the build_command of the class
\* of the session), the subprocess spawned and the session waits until
\* is_connected holds or the wait times out.
start(s, bin_found, outcome) ==
    LET t == _set_web3(s) IN
    IF t.exc # "none" THEN t
    ELSE IF Connected(t) THEN [t EXCEPT !.process = {}]
    ELSE LET c == IF t.fork_url # NoFork THEN fork_build_command(t, bin_found)
                  ELSE build_command(t, bin_found) IN
         IF c.exc # "none" THEN c
         ELSE LET spawned == [c EXCEPT !.process = {c.port},
                                       !.running = @ \cup {c.port},
                                       !.spawned = @ + 1]
              IN IF outcome = "ready" /\ c.port \in DOMAIN c.net
                 THEN _set_web3([spawned EXCEPT !.net[c.port] = "ganache"])
                 ELSE [spawned EXCEPT !.exc = "RPCTimeoutError"]

\* ", ".join(self.attempted_ports) raises TypeError on an item that is not a str
JoinRaises(list) == \E i \in DOMAIN list : ~PortIsStr(list[i])

\* The draws of random.randint, one per index: tape[1] is the draw of line 280,
\* tape[n + 1] the n-th draw of line 284.
Tape(k, c, p) == [i \in 1 .. max_attempts + 1 |-> IF i <= k THEN c ELSE p]

\* Mutant of DrawLoop: the first draw is taken without the membership test.
DrawLoop_NoCheck(s, tape, attempts, p) ==
    [s EXCEPT !.port = p, !.picked = p, !.draws = attempts + 1]

\* _start, lines 280-292: the loop over the drawn ports
RECURSIVE DrawLoop(_, _, _, _)
DrawLoop(s, tape, attempts, p) ==
    IF ~InList(p, s.attempted)
    THEN [s EXCEPT !.port = p, !.picked = p, !.draws = attempts + 1]
    ELSE LET n == attempts + 1 IN
         IF n = max_attempts
         THEN IF JoinRaises(s.attempted)
              THEN [s EXCEPT !.exc = "TypeError", !.draws = n + 1]
              ELSE [s EXCEPT !.exc = "GanacheProviderError", !.draws = n + 1,
                             !.msg = s.attempted]
         ELSE DrawLoop(s, tape, n, tape[n + 1])

\* _start, lines 273-292: the port of an "auto" session
SelectPort(s, tape) ==
    LET use_random_port == s.port = AUTO IN
    IF use_random_port
    THEN LET t == [s EXCEPT !.port = NoPort, !.att_at_pick = s.attempted,
                            !.auto = TRUE]
         IN IF ~InList(DEFAULT_PORT, t.attempted) /\ ~use_random_port
            THEN [t EXCEPT !.port = DEFAULT_PORT, !.picked = DEFAULT_PORT]
            ELSE DrawLoop(t, tape, 0, tape[1])
    ELSE s

\* GanacheProvider._start
_start(s, tape, bin_found, outcome) ==
    LET t == SelectPort([s EXCEPT !.starts = @ + 1], tape) IN
    IF t.exc # "none" THEN t
    ELSE start([t EXCEPT !.attempted = Append(@, t.port)], bin_found, outcome)

---------------------------------------------------------------------------
(* connect and disconnect *)

\* Mutant of ResolvePort: the configured server port is preferred to
\* provider_settings["port"].
ResolvePort_ConfiguredFirst(s, configured) ==
    IF s.port # NoPort THEN s
    ELSE IF configured # NoPort
         THEN [s EXCEPT !.port = configured]
         ELSE [s EXCEPT !.port = Get(s.ps, "port"), !.ps = Pop(s.ps, "port")]

\* connect, lines 199-206: the port of a session that has none
ResolvePort(s, configured) ==
    IF s.port # NoPort THEN s
    ELSE IF "port" \in DOMAIN s.ps
         THEN [s EXCEPT !.port = s.ps["port"], !.ps = Pop(s.ps, "port")]
         ELSE [s EXCEPT !.port = IF Get(s.ps, "server") # NoPort
                                 THEN Get(s.ps, "server")
                                 ELSE configured]

\* super().connect() at line 213: SubprocessProvider.connect refuses a session
\* that is connected already and registers the exit handlers.
SuperConnect(s) ==
    LET t == _set_web3(s) IN
    IF t.exc # "none" THEN t
    ELSE IF Connected(t) THEN [t EXCEPT !.exc = "ProviderError"]
    ELSE t

\* Another Ganache node begins to answer on the port of the session between the
\* probe of line 208 and the probe of line 216.
Arrive(s, arrive) ==
    IF arrive /\ s.port \in DOMAIN s.net /\ s.net[s.port] = "free"
       /\ s.port \notin s.running
    THEN [s EXCEPT !.net[s.port] = "ganache"]
    ELSE s

\* Mutant of RetryLoop: GanacheNotInstalledError is retried like any other
\* SubprocessError.
RECURSIVE RetryLoop_NoReraise(_, _, _, _, _)
RetryLoop_NoReraise(s, n, tape, bin_found, outcome) ==
    IF n = 0 THEN s
    ELSE LET t == _start(s, tape, bin_found, outcome) IN
         IF t.exc = "none" THEN t
         ELSE IF IsSubprocessError(t.exc)
              THEN RetryLoop_NoReraise([t EXCEPT !.exc = "none", !.port = NoPort,
                                                !.retries = @ + 1],
                                       n - 1, tape, bin_found, outcome)
              ELSE t

\* connect, lines 225-235: n iterations are left
RECURSIVE RetryLoop(_, _, _, _, _)
RetryLoop(s, n, tape, bin_found, outcome) ==
    IF n = 0 THEN s
    ELSE LET t == _start(s, tape, bin_found, outcome) IN
         IF t.exc = "none" THEN t
         ELSE IF t.exc = "GanacheNotInstalledError" THEN t
         ELSE IF IsSubprocessError(t.exc)
              THEN RetryLoop([t EXCEPT !.exc = "none", !.port = NoPort,
                                       !.retries = @ + 1],
                             n - 1, tape, bin_found, outcome)
              ELSE t

\* GanacheProvider.connect. in.process_attempts is {} when the settings hold no
\* process_attempts, {n} when they hold n.
connect(s, in) ==
    LET a == ResolvePort(s, in.configured)
        b == _set_web3(a)
    IN  IF b.exc # "none" THEN b
        ELSE IF Connected(b)
        THEN _start(b, in.tape, in.bin_found, in.outcome)
        ELSE LET c == SuperConnect(b) IN
             IF c.exc # "none" THEN c
             ELSE IF c.port # NoPort
             THEN LET d == _set_web3(Arrive(c, in.arrive)) IN
                  IF d.exc # "none" THEN d
                  ELSE IF ~Connected(d)
                       THEN _start(d, in.tape, in.bin_found, in.outcome)
                       ELSE d
             ELSE IF in.process_attempts = {}
                  THEN [c EXCEPT !.exc = "AttributeError"]
                  ELSE RetryLoop(c, CHOOSE n \in in.process_attempts : TRUE,
                                 in.tape, in.bin_found, in.outcome)

\* Mutant of fork_connect: a genesis block that differs is an error.
fork_connect_MismatchFatal(s, in) ==
    LET r == connect(s, in) IN
    IF r.exc # "none" THEN r
    ELSE IF in.upstream = "fails" THEN [r EXCEPT !.exc = "GanacheProviderError"]
    ELSE IF ~Connected(r) THEN [r EXCEPT !.exc = "ProviderNotConnectedError"]
    ELSE IF in.genesis = "differs"
         THEN [r EXCEPT !.warned = TRUE, !.exc = "GanacheProviderError"]
         ELSE r

\* GanacheForkProvider.connect: after the connect() of GanacheProvider the
\* genesis block of the upstream provider is fetched (upstream "poa": the fetch
\* succeeds once the PoA middleware is injected; "fails": the upstream is no
\* Web3Provider and GanacheProviderError is raised) and compared with block 0
\* of the session; warned tells that the warning of a mismatch was logged.
fork_connect(s, in) ==
    LET r == connect(s, in) IN
    IF r.exc # "none" THEN r
    ELSE IF in.upstream = "fails" THEN [r EXCEPT !.exc = "GanacheProviderError"]
    ELSE IF ~Connected(r) THEN [r EXCEPT !.exc = "ProviderNotConnectedError"]
    ELSE IF in.genesis = "differs" THEN [r EXCEPT !.warned = TRUE]
    ELSE r

\* Mutant of stop: every subprocess of the host process is stopped.
stop_All(s) ==
    [s EXCEPT !.running = {},
              !.net = [p \in DOMAIN s.net |-> IF p \in s.running THEN "free" ELSE s.net[p]],
              !.process = {}]

\* Mutant of stop: the handle is forgotten and the process left running.
stop_NoKill(s) == [s EXCEPT !.process = {}]

\* super().disconnect() at line 300: SubprocessProvider.disconnect stops the
\* process the session manages, if any, and forgets it.
stop(s) ==
    IF s.process # {}
    THEN [s EXCEPT !.running = @ \ s.process,
                   !.net = [p \in DOMAIN s.net |->
                               IF p \in s.process /\ p \in s.running
                               THEN "free" ELSE s.net[p]],
                   !.process = {}]
    ELSE s

\* Mutants of disconnect: the port, or the connection handle, is not cleared.
disconnect_KeepPort(s) == stop([s EXCEPT !.web3 = NoWeb3])

disconnect_KeepWeb3(s) == stop([s EXCEPT !.port = NoPort])

\* GanacheProvider.disconnect
disconnect(s) == stop([s EXCEPT !.web3 = NoWeb3, !.port = NoPort])

---------------------------------------------------------------------------
(* Chain manipulation: mine, snapshot, revert (provider.py 329-341) *)

\* Python values that travel in requests and results: an int, a str (the
\* sequence of its characters) or a bool.
PyInt(n) == [type |-> "int", n |-> n, s |-> << >>]

PyStr(chars) == [type |-> "str", n |-> 0, s |-> chars]

PyBool(b) == [type |-> "bool", n |-> IF b THEN 1 ELSE 0, s |-> << >>]

PyNone == [type |-> "none", n |-> 0, s |-> << >>]

HexDigits ==
    <<"0", "1", "2", "3", "4", "5", "6", "7", "8", "9", "a", "b", "c", "d", "e", "f">>

\* The decimal digits are the characters int() accepts; str.isnumeric accepts
\* every character with a numeric value, the superscript two among them.
DecimalChars == {HexDigits[i] : i \in 1 .. 10}

NumericChars == DecimalChars \cup {"SUPERSCRIPT TWO"}

DigitValue(c) == (CHOOSE i \in DOMAIN HexDigits : HexDigits[i] = c) - 1

\* The digits of n >= 0 in the given base, most significant first
RECURSIVE ToBase(_, _)
ToBase(n, base) ==
    IF n < base THEN <<HexDigits[n + 1]>>
    ELSE Append(ToBase(n \div base, base), HexDigits[(n % base) + 1])

\* The value of a sequence of digits of the given base
RECURSIVE FromBase(_, _)
FromBase(chars, base) ==
    IF chars = << >> THEN 0
    ELSE FromBase(SubSeq(chars, 1, Len(chars) - 1), base) * base
         + DigitValue(chars[Len(chars)])

\* str(result)
str(v) ==
    IF v.type = "int" THEN PyStr(ToBase(v.n, 10))
    ELSE IF v.type = "bool" THEN PyStr(IF v.n = 1 THEN <<"T", "r", "u", "e">>
                                       ELSE <<"F", "a", "l", "s", "e">>)
    ELSE v

\* str.isnumeric
isnumeric(chars) ==
    chars # << >> /\ \A i \in DOMAIN chars : chars[i] \in NumericChars

\* int(str) raises ValueError unless every character is a decimal digit
IntRaises(chars) ==
    chars = << >> \/ \E i \in DOMAIN chars : chars[i] \notin DecimalChars

\* The node: chain is the sequence of the block hashes, genesis first (the
\* number of the latest block is Len(chain) - 1); minted counts the blocks ever
\* mined, so that a block mined after a revert has a hash of its own;
\* snapshots[i] is the chain saved under the identifier i; id_form is how the
\* node writes an identifier in a result ("hex": the string "0x<i>", "int": i).
NewNode(form) ==
    [chain |-> <<0>>, minted |-> 0, snapshots |-> << >>, id_form |-> form, time |-> 0]

LatestNumber(g) == Len(g.chain) - 1

LatestHash(g) == g.chain[Len(g.chain)]

\* How the node reads the identifier of evm_revert: an integer, or a string
\* "0x" followed by hexadecimal digits
SnapshotIndex(v) ==
    IF v.type = "int" THEN v.n
    ELSE IF v.type = "str" /\ Len(v.s) > 2 /\ v.s[1] = "0" /\ v.s[2] = "x"
            /\ \A i \in 3 .. Len(v.s) : v.s[i] \in {HexDigits[j] : j \in 1 .. 16}
         THEN FromBase(SubSeq(v.s, 3, Len(v.s)), 16)
         ELSE 0

\* The running computation of a chain call is a record c with the node (g), the
\* methods requested so far (log), the result of the last request (result) and
\* the pending exception (exc).

\* Mutant of evm_revert: the chain is left as it is.
evm_revert_KeepChain(c, v) ==
    LET i == SnapshotIndex(v) IN
    IF i \in 1 .. Len(c.g.snapshots)
    THEN [c EXCEPT !.g.snapshots = SubSeq(@, 1, i - 1), !.result = PyBool(TRUE)]
    ELSE [c EXCEPT !.result = PyBool(FALSE)]

\* The node serving evm_revert: a known identifier restores the chain saved
\* under it and discards that snapshot and the later ones; an unknown one
\* changes nothing.
evm_revert(c, v) ==
    LET i == SnapshotIndex(v) IN
    IF i \in 1 .. Len(c.g.snapshots)
    THEN [c EXCEPT !.g.chain = c.g.snapshots[i],
                   !.g.snapshots = SubSeq(@, 1, i - 1),
                   !.result = PyBool(TRUE)]
    ELSE [c EXCEPT !.result = PyBool(FALSE)]

\* The node serving evm_snapshot
evm_snapshot(c) ==
    LET i == Len(c.g.snapshots) + 1 IN
    [c EXCEPT !.g.snapshots = Append(@, c.g.chain),
              !.result = IF c.g.id_form = "int" THEN PyInt(i)
                         ELSE PyStr(<<"0", "x">> \o ToBase(i, 16))]

\* The node serving evm_mine
evm_mine(c) ==
    [c EXCEPT !.g.chain = Append(@, c.g.minted + 1), !.g.minted = @ + 1,
              !.result = PyStr(<<"0", "x", "0">>)]

\* The node serving evm_setTime: its clock is set to the milliseconds written
\* in hexadecimal
evm_setTime(c, v) ==
    [c EXCEPT !.g.time = FromBase(SubSeq(v.s, 3, Len(v.s)), 16), !.result = PyInt(0)]

\* self._make_request(method, [param])
_make_request(c, method, param) ==
    LET d == [c EXCEPT !.log = Append(@, method), !.sent = Append(@, param)] IN
    IF method = "evm_mine" THEN evm_mine(d)
    ELSE IF method = "evm_snapshot" THEN evm_snapshot(d)
    ELSE IF method = "evm_setTime" THEN evm_setTime(d, param)
    ELSE evm_revert(d, param)

\* HexBytes(n).hex(): "0x" and the bytes of n, two digits each
HexBytes_hex(n) ==
    LET digits == ToBase(n, 16) IN
    PyStr(<<"0", "x">> \o (IF Len(digits) % 2 = 1 THEN <<"0">> ELSE << >>) \o digits)

\* GanacheProvider.set_timestamp; HexBytes refuses a negative integer
set_timestamp(c, new_timestamp) ==
    LET ms == new_timestamp * 1000 IN
    IF ms < 0 THEN [c EXCEPT !.exc = "ValueError"]
    ELSE _make_request(c, "evm_setTime", HexBytes_hex(ms))

\* Mutant of mine: one request whatever the number of blocks asked.
mine_Once(c, num_blocks) == _make_request(c, "evm_mine", PyNone)

\* GanacheProvider.mine: for i in range(num_blocks)
RECURSIVE mine(_, _)
mine(c, num_blocks) ==
    IF num_blocks <= 0 THEN c
    ELSE mine(_make_request(c, "evm_mine", PyNone), num_blocks - 1)

\* GanacheProvider.snapshot
snapshot(c) ==
    LET d == _make_request(c, "evm_snapshot", PyNone) IN
    [d EXCEPT !.result = str(d.result)]

\* Mutant of revert: a numeric string reaches the node as a string.
revert_NoInt(c, snapshot_id) == _make_request(c, "evm_revert", snapshot_id)

\* GanacheProvider.revert
revert(c, snapshot_id) ==
    IF snapshot_id.type = "str" /\ isnumeric(snapshot_id.s)
    THEN IF IntRaises(snapshot_id.s)
         THEN [c EXCEPT !.exc = "ValueError"]
         ELSE _make_request(c, "evm_revert", PyInt(FromBase(snapshot_id.s, 10)))
    ELSE _make_request(c, "evm_revert", snapshot_id)

\* No snapshot taken, no chain call made
NoSnap == [id |-> PyNone, number |-> 0, hash |-> 0, clean |-> FALSE]

NoCall ==
    [op |-> "none", exc |-> "none", result |-> PyNone, log |-> << >>, sent |-> << >>,
     arg |-> PyNone,
     k |-> 0, number |-> 0, hash |-> 0, chain |-> << >>, of_snap |-> FALSE,
     known |-> FALSE]

---------------------------------------------------------------------------
(* Error translation: get_virtual_machine_error (provider.py 386-444) *)

ganache_prefix == "VM Exception while processing transaction: "

execution_reverted == "execution reverted: "

\* prefixes, in the order the loop tries them
prefixes == <<execution_reverted \o ganache_prefix, ganache_prefix>>

\* An exception is a record: kind tells what exception.args holds ("noargs":
\* nothing, "dict" / "str" / "other": the type of args[0]); for a dict,
\* has_message tells whether it has the key "message" and data what it has
\* under the key "data" ("absent": no such key, "nohash": a mapping without
\* "hash", "hash": a mapping with a hash, "other": a value that is no mapping).
\* trace is the sequence of the frames of the trace of the transaction, passed
\* by the caller (in_kwargs) or else fetched from the node (none when the fetch
\* fails).
NoPayload ==
    [kind |-> "noargs", has_message |-> FALSE, message |-> "", data |-> "absent",
     in_kwargs |-> FALSE, trace |-> << >>]

\* What get_virtual_machine_error does: the exception it raises, or the error
\* it returns: the class, whether the exception is passed as base_err, the
\* message of a VirtualMachineError built from a message, the revert_message of
\* a ContractLogicError if it has one, and the frames that can be read from the
\* trace among the arguments of the error.
NoErr ==
    [cls |-> "none", base_err |-> FALSE, message |-> "", has_reason |-> FALSE,
     reason |-> "", raises |-> "none", has_trace |-> FALSE, trace |-> << >>]

BaseError == [NoErr EXCEPT !.cls = "VirtualMachineError", !.base_err = TRUE]

\* "".join([x[2:] for x in data["memory"][4:]])
RECURSIVE JoinMemory(_, _)
JoinMemory(memory, i) ==
    IF i > Len(memory) THEN ""
    ELSE SubSeq(memory[i], 3, Len(memory[i])) \o JoinMemory(memory, i + 1)

\* itertools.tee: two iterators, each over all the frames left in the one given
tee(frames) == <<frames, frames>>

\* Lines 391-417: the message of a payload, "" standing for the early returns
\* on a payload that is neither a dict nor a str, or the exception raised on
\* the way: .get("hash") on a "data" that is no mapping, [-1] on the empty list
\* of a trace the caller passed (on a fetched trace the exception is swallowed).
Message(e) ==
    IF e.kind = "dict"
    THEN LET message == IF e.has_message THEN e.message ELSE "None" IN
         IF e.data = "other" THEN [raises |-> "AttributeError", message |-> message]
         ELSE IF e.data = "hash" /\ message = ganache_prefix \o "revert"
         THEN LET new_trace == IF e.in_kwargs THEN tee(e.trace)[2] ELSE e.trace IN
              IF new_trace = << >>
              THEN [raises |-> IF e.in_kwargs THEN "IndexError" ELSE "none",
                    message |-> message]
              ELSE LET data == new_trace[Len(new_trace)] IN
                   [raises |-> "none",
                    message |-> IF data.op = "REVERT" /\ JoinMemory(data.memory, 5) # ""
                                THEN ganache_prefix \o "0x" \o JoinMemory(data.memory, 5)
                                ELSE message]
         ELSE [raises |-> "none", message |-> message]
    ELSE IF e.kind = "str" THEN [raises |-> "none", message |-> e.message]
    ELSE [raises |-> "none", message |-> ""]

\* Lines 425-431: the index of the first prefix the message starts with, 0 if none
MatchedPrefix(message) ==
    IF StartsWith(message, prefixes[1]) THEN 1
    ELSE IF StartsWith(message, prefixes[2]) THEN 2
    ELSE 0

\* Lines 436-444: the error of a message whose prefix was stripped
Classify(message) ==
    IF message = "revert"
    THEN [NoErr EXCEPT !.cls = "ContractLogicError"]
    ELSE [NoErr EXCEPT !.cls = "ContractLogicError", !.has_reason = TRUE,
                       !.reason = IF StartsWith(message, "revert ")
                                  THEN Replace(message, "revert ", "")
                                  ELSE message]

\* GanacheProvider.get_virtual_machine_error
get_virtual_machine_error(e) ==
    LET m == Message(e)
        message == m.message
        i == MatchedPrefix(message)
        err == IF e.kind = "noargs" \/ message = "" THEN BaseError
               ELSE IF i = 0
               THEN [NoErr EXCEPT !.cls = "VirtualMachineError", !.message = message]
               ELSE Classify(Replace(message, prefixes[i], ""))
    IN  IF e.kind # "noargs" /\ m.raises # "none" THEN [NoErr EXCEPT !.raises = m.raises]
        ELSE [err EXCEPT !.has_trace = e.in_kwargs,
                         !.trace = IF e.in_kwargs THEN tee(e.trace)[1] ELSE << >>]

---------------------------------------------------------------------------
(* The state machine *)

\* The session as the record a call computes on
Session ==
    [port |-> port, web3 |-> web3, process |-> process,
     attempted |-> attempted_ports, ps |-> provider_settings,
     net |-> net, running |-> running, exc |-> "none",
     starts |-> 0, spawned |-> 0, picked |-> NoPort, att_at_pick |-> << >>,
     auto |-> FALSE, draws |-> 0, retries |-> 0, msg |-> << >>, not_found |-> 0,
     named |-> NoPort, fork_url |-> fork_url, fork_arg |-> "", built_uri |-> "",
     warned |-> FALSE]

\* GanacheProvider.is_connected: _set_web3, then whether a handle is held
is_connected(s) == Connected(_set_web3(s))

\* The session is connected: it holds a handle that passed the client-version
\* check and the node still answers on its port.
IsLive(s) ==
    /\ s.web3 # NoWeb3 /\ s.web3.ganache /\ s.web3.port = s.port
    /\ Answers(s.net, s.port) = "ganache"

\* What a call leaves in the history variable: its exception, the value
\* is_connected has when it returns, its counters, and what the session held
\* when it was called (asked, owned, was_connected, process_attempts) and what
\* answered, when it was called, on the port it chose (found).
Outcome(op, r, asked, pa) ==
    [op |-> op, exc |-> r.exc,
     ret |-> _set_web3(r).exc = "none" /\ is_connected(r),
     starts |-> r.starts, spawned |-> r.spawned, picked |-> r.picked,
     att_at_pick |-> r.att_at_pick, auto |-> r.auto, draws |-> r.draws,
     retries |-> r.retries, msg |-> r.msg, not_found |-> r.not_found,
     named |-> r.named, fork_arg |-> r.fork_arg, built_uri |-> r.built_uri,
     warned |-> r.warned,
     found |-> Answers(net, IF r.picked # NoPort THEN r.picked
                            ELSE ResolvePort(Session, server_port).port),
     asked |-> asked, owned |-> process, was_connected |-> IsLive(Session),
     process_attempts |-> pa]

External(n, r) == {p \in DOMAIN n : n[p] # "free" /\ p \notin r}

\* The inputs of one connect() call: the draws of random.randint, whether the
\* executable is found, whether the spawned node becomes ready, whether a node
\* arrives on the port meanwhile, and settings.process_attempts (read only when
\* the session has no port; GanacheNetworkConfig declares no such field, so the
\* settings may hold none).
Inputs ==
    LET r == ResolvePort(Session, server_port).port IN
    {[configured |-> server_port, tape |-> Tape(k, c, p), bin_found |-> b,
      outcome |-> o, arrive |-> a, process_attempts |-> pa, upstream |-> u,
      genesis |-> g] :
        k \in (IF r = AUTO THEN {0, max_attempts - 1, max_attempts} ELSE {0}),
        c \in (IF r = AUTO THEN RandInt ELSE {NoPort}),
        p \in (IF r = AUTO THEN RandInt ELSE {NoPort}),
        b \in BOOLEAN,
        o \in {"ready", "timeout"},
        a \in (IF External(net, running) = {} /\ r \in Ports
               THEN BOOLEAN ELSE {FALSE}),
        pa \in (IF r = NoPort
                THEN {{}, {0}, {1}, {2}}
                ELSE {{2}}),
        u \in (IF fork_url # NoFork THEN {"ok", "poa", "fails"} ELSE {"ok"}),
        g \in (IF fork_url # NoFork THEN {"same", "differs"} ELSE {"same"})}

Install(r) ==
    /\ port' = r.port
    /\ web3' = r.web3
    /\ process' = r.process
    /\ attempted_ports' = r.attempted
    /\ provider_settings' = r.ps
    /\ net' = r.net
    /\ running' = r.running

\* The port the caller has supplied and the session still holds when connect()
\* is called: the port attribute, else provider_settings["port"].
Asked ==
    IF port # NoPort THEN port ELSE Get(provider_settings, "port")

\* The result r of a connect() call made with the inputs in is stored
StoreConnect(r, in) ==
    /\ Len(r.attempted) <= MaxAttempted
    /\ Install(r)
    /\ last' = Outcome("connect", r, Asked, in.process_attempts)
    /\ ever_connected' = (ever_connected \/ r.exc = "none")
    /\ UNCHANGED <<server_port, supplied, fork_url, chain_vars, err_vars, more_vars>>

\* connect() of the class of the session
Connect ==
    \E in \in Inputs :
        StoreConnect(IF fork_url # NoFork THEN fork_connect(Session, in)
                     ELSE connect(Session, in), in)

Disconnect ==
    LET r == disconnect(Session) IN
    /\ Install(r)
    /\ last' = Outcome("disconnect", r, NoPort, {})
    /\ UNCHANGED <<server_port, supplied, ever_connected, fork_url, chain_vars,
                   err_vars, more_vars>>

\* The caller reads is_connected
IsConnected ==
    LET r == _set_web3(Session) IN
    /\ Install(r)
    /\ last' = Outcome("is_connected", r, NoPort, {})
    /\ UNCHANGED <<server_port, supplied, ever_connected, fork_url, chain_vars,
                   err_vars, more_vars>>

\* The caller assigns the port of a session that is not connected
\* (tests/test_provider.py line 24, tests/conftest.py line 44)
SetPort(p) ==
    /\ port = NoPort /\ web3 = NoWeb3 /\ process = {}
    /\ port' = p
    /\ supplied' = IF p \in Ports THEN p ELSE NoPort
    /\ last' = Outcome("set_port", Session, NoPort, {})
    /\ UNCHANGED <<web3, process, attempted_ports, provider_settings, server_port,
                   net, running, ever_connected, fork_url, chain_vars, err_vars, more_vars>>

\* A process that is not of this session begins / ceases to answer on a port;
\* the model keeps at most one such process at a time.
ExternalUp(p, kind) ==
    /\ net[p] = "free" /\ p \notin running
    /\ External(net, running) = {}
    /\ net' = [net EXCEPT ![p] = kind]
    /\ UNCHANGED <<port, web3, process, attempted_ports, provider_settings,
                   server_port, running, supplied, ever_connected, last, fork_url,
                   chain_vars, err_vars, more_vars>>

ExternalDown(p) ==
    /\ p \in External(net, running)
    /\ net' = [net EXCEPT ![p] = "free"]
    /\ UNCHANGED <<port, web3, process, attempted_ports, provider_settings,
                   server_port, running, supplied, ever_connected, last, fork_url,
                   chain_vars, err_vars, more_vars>>

\* provider_settings a caller may construct the session with
SettingsChoices ==
    {<< >>, [port |-> TestPort], [server |-> TestPort]}

\* A second session as it is after construction; shares tells whether its
\* attempted_ports is the list of the first session
NoPeer ==
    [port |-> NoPort, web3 |-> NoWeb3, process |-> {}, attempted |-> << >>,
     ps |-> << >>, shares |-> FALSE]

\* No receipt was looked up and no call tree built
NoReceipt ==
    [data |-> << >>, gas_used |-> 0, contract_address |-> PyNone, failed |-> FALSE,
     trace_failed |-> FALSE]

NoTree == [built |-> FALSE, failed |-> FALSE, call_type |-> "none", gas_cost |-> 0]

\* One session only, and neither call trees nor traces fetched
NoOther ==
    /\ peer = NoPeer
    /\ chains = [p \in Ports |-> NewNode("hex")]
    /\ acted = [actor |-> 0, op |-> "none"]
    /\ receipt = NoReceipt /\ call_tree = NoTree
    /\ gens = << >> /\ trace_requests = 0

\* No chain call was made yet on a node that writes identifiers in hex
NoChainCall == ganache = NewNode("hex") /\ snap = NoSnap /\ clast = NoCall

\* No exception was translated yet
NoTranslation == payload = NoPayload /\ verr = NoErr

\* The state after construction, given the settings of the caller, the
\* configured server port and the connection string of the upstream provider
Constructed(settings, configured, upstreams) ==
    /\ port = NoPort
    /\ web3 = NoWeb3
    /\ process = {}
    /\ attempted_ports = << >>
    /\ provider_settings \in settings
    /\ server_port \in configured
    /\ net = [p \in Ports |-> "free"]
    /\ running = {}
    /\ supplied = IF Get(provider_settings, "port") \in Ports
                  THEN Get(provider_settings, "port") ELSE NoPort
    /\ ever_connected = FALSE
    /\ fork_url \in upstreams
    /\ last = Outcome("init", Session, NoPort, {})
    /\ NoChainCall
    /\ NoTranslation
    /\ NoOther

\* The state of a GanacheProvider after construction
Created(settings, configured) == Constructed(settings, configured, {NoFork})

\* Sessions whose port is an integer or unset: the ports they can probe are the
\* default port and the port of the caller.
Init == Created(SettingsChoices, {DEFAULT_PORT, NoPort})

Next ==
    \/ Connect
    \/ Disconnect
    \/ IsConnected
    \/ SetPort(TestPort)
    \/ \E p \in {DEFAULT_PORT, TestPort}, kind \in {"ganache", "foreign"} :
          ExternalUp(p, kind)
    \/ \E p \in Ports : ExternalDown(p)

Spec == Init /\ [][Next]_vars

\* Sessions whose port is "auto", by configuration (GanacheServerConfig.port) or
\* by assignment (tests/conftest.py line 44): the ports they can probe are the
\* default port and the drawn ones.
InitAuto == Created({<< >>}, {AUTO})

NextAuto ==
    \/ Connect
    \/ Disconnect
    \/ IsConnected
    \/ SetPort(AUTO)
    \/ \E p \in {DEFAULT_PORT} \cup RandInt, kind \in {"ganache", "foreign"} :
          ExternalUp(p, kind)
    \/ \E p \in Ports : ExternalDown(p)

SpecAuto == InitAuto /\ [][NextAuto]_vars

---------------------------------------------------------------------------
(* Fork sessions *)

\* Connection strings of the upstream provider
ForkUrls ==
    {"http://localhost:8545", "http://127.0.0.1:8555", "http://localhost:8555/",
     "https://mainnet.example.org/v3/key"}

\* The state of a GanacheForkProvider after construction
InitFork == Constructed({<< >>}, {DEFAULT_PORT}, ForkUrls)

SpecFork == InitFork /\ [][Next]_vars

---------------------------------------------------------------------------
(* Two sessions of one host process (tests/test_ganache.py 61-91) *)

\* The blocks mined on one node while two sessions run
MaxPeerMinted == 1

\* Session i as the record a call computes on: 1 is the session of the
\* variables port, web3, ..., 2 is the peer
SessionOf(i) ==
    IF i = 1 THEN Session
    ELSE [Session EXCEPT !.port = peer.port, !.web3 = peer.web3,
                         !.process = peer.process, !.attempted = peer.attempted,
                         !.ps = peer.ps]

\* What the other session holds: its port, its handle, its process, and the
\* node of its port with its chain
OtherState(i) ==
    LET o == SessionOf(3 - i) IN
    [port |-> o.port, web3 |-> o.web3, process |-> o.process,
     alive |-> o.process \cap running, answers |-> Answers(net, o.port),
     chain |-> IF o.port \in Ports THEN chains[o.port].chain ELSE << >>]

\* The call of session i, from s to r, stayed off the port of the other session
Distinct(i, s, r) == SessionOf(3 - i).port \notin {s.port, r.port}

\* The result r of a call of session i is stored; a node spawned by the call
\* starts a chain of its own; a shared attempted_ports is seen by both sessions.
InstallOf(i, r) ==
    /\ net' = r.net
    /\ running' = r.running
    /\ chains' = [p \in Ports |-> IF p \in r.running \ running
                                  THEN NewNode("hex") ELSE chains[p]]
    /\ IF i = 1
       THEN /\ port' = r.port /\ web3' = r.web3 /\ process' = r.process
            /\ attempted_ports' = r.attempted /\ provider_settings' = r.ps
            /\ peer' = IF peer.shares THEN [peer EXCEPT !.attempted = r.attempted]
                       ELSE peer
       ELSE /\ peer' = [port |-> r.port, web3 |-> r.web3, process |-> r.process,
                        attempted |-> r.attempted, ps |-> r.ps,
                        shares |-> peer.shares]
            /\ attempted_ports' = IF peer.shares THEN r.attempted ELSE attempted_ports
            /\ UNCHANGED <<port, web3, process, provider_settings>>

\* The inputs of a connect() call on an explicit port
PlainInputs ==
    {[configured |-> server_port, tape |-> Tape(0, NoPort, NoPort), bin_found |-> b,
      outcome |-> o, arrive |-> FALSE, process_attempts |-> {2}, upstream |-> "ok",
      genesis |-> "same"] : b \in BOOLEAN, o \in {"ready", "timeout"}}

Acted(i, op, s, r) ==
    [actor |-> i, op |-> op, before |-> OtherState(i), distinct |-> Distinct(i, s, r)]

ConnectOf(i) ==
    /\ \E in \in PlainInputs :
          LET r == connect(SessionOf(i), in) IN
          /\ Len(r.attempted) <= MaxAttempted
          /\ InstallOf(i, r)
          /\ acted' = Acted(i, "connect", SessionOf(i), r)
    /\ UNCHANGED <<server_port, supplied, ever_connected, last, fork_url, chain_vars,
                   err_vars, tree_vars, trace_vars>>

DisconnectOf(i) ==
    /\ LET r == disconnect(SessionOf(i)) IN
       /\ InstallOf(i, r)
       /\ acted' = Acted(i, "disconnect", SessionOf(i), r)
    /\ UNCHANGED <<server_port, supplied, ever_connected, last, fork_url, chain_vars,
                   err_vars, tree_vars, trace_vars>>

\* The caller assigns the port of a session that is not connected
SetPortOf(i, p) ==
    /\ SessionOf(i).port = NoPort /\ SessionOf(i).web3 = NoWeb3
    /\ SessionOf(i).process = {}
    /\ IF i = 1 THEN port' = p /\ peer' = peer
       ELSE peer' = [peer EXCEPT !.port = p] /\ port' = port
    /\ acted' = Acted(i, "set_port", SessionOf(i), [SessionOf(i) EXCEPT !.port = p])
    /\ UNCHANGED <<web3, process, attempted_ports, provider_settings, server_port,
                   net, running, supplied, ever_connected, last, fork_url, chains,
                   chain_vars, err_vars, tree_vars, trace_vars>>

\* mine() on session i: one block on the node its handle is on
MineOf(i) ==
    /\ IsLive(SessionOf(i))
    /\ LET p == SessionOf(i).web3.port
           c == mine([g |-> chains[p], log |-> << >>, sent |-> << >>, result |-> PyNone,
                      exc |-> "none"], 1)
       IN /\ chains[p].minted < MaxPeerMinted
          /\ chains' = [chains EXCEPT ![p] = c.g]
    /\ acted' = Acted(i, "mine", SessionOf(i), SessionOf(i))
    /\ UNCHANGED <<session_vars, peer, chain_vars, err_vars, tree_vars, trace_vars>>

\* Two sessions after construction, their attempted_ports one list or two
InitMulti ==
    /\ port = NoPort
    /\ web3 = NoWeb3
    /\ process = {}
    /\ attempted_ports = << >>
    /\ provider_settings = << >>
    /\ server_port = DEFAULT_PORT
    /\ net = [p \in Ports |-> "free"]
    /\ running = {}
    /\ supplied = NoPort
    /\ ever_connected = FALSE
    /\ fork_url = NoFork
    /\ last = Outcome("init", Session, NoPort, {})
    /\ NoChainCall
    /\ NoTranslation
    /\ peer \in {NoPeer, [NoPeer EXCEPT !.shares = TRUE]}
    /\ chains = [p \in Ports |-> NewNode("hex")]
    /\ acted = [actor |-> 0, op |-> "none"]
    /\ receipt = NoReceipt /\ call_tree = NoTree
    /\ gens = << >> /\ trace_requests = 0

NextMulti ==
    \E i \in {1, 2} :
        \/ ConnectOf(i)
        \/ DisconnectOf(i)
        \/ MineOf(i)
        \/ \E p \in {DEFAULT_PORT, TestPort} : SetPortOf(i, p)

SpecMulti == InitMulti /\ [][NextMulti]_vars

---------------------------------------------------------------------------
(* The chain calls of a connected session *)

\* The chain call as the record it computes on
Call == [g |-> ganache, log |-> << >>, sent |-> << >>, result |-> PyNone, exc |-> "none"]

\* The identifier names a snapshot the node holds: it is the number of the
\* snapshot, or that number as the node or str() writes it.
Known(v, g) ==
    \E i \in 1 .. Len(g.snapshots) :
        v \in {PyInt(i), PyStr(ToBase(i, 10)), PyStr(<<"0", "x">> \o ToBase(i, 16))}

\* What a chain call leaves in the history variable: its exception, result and
\* requests, and the chain as it was when the call was made.
ChainOutcome(op, c, k, arg) ==
    [op |-> op, exc |-> c.exc, result |-> c.result, log |-> c.log, sent |-> c.sent,
     arg |-> arg,
     k |-> k, number |-> LatestNumber(ganache), hash |-> LatestHash(ganache),
     chain |-> ganache.chain,
     of_snap |-> op = "revert" /\ snap.clean /\ arg = snap.id,
     known |-> op = "revert" /\ Known(arg, ganache)]

\* The numbers of blocks a caller asks mine() for
MineCounts == {-1, 0, 1, 2}

\* Identifiers a caller passes to revert() besides the one snapshot() returned
RevertIds ==
    {PyInt(UnknownId), PyInt(0), PyInt(1), PyStr(<<"1">>), PyStr(<<"0", "x", "1">>),
     PyStr(<<"2">>), PyStr(<<"SUPERSCRIPT TWO">>)}

Mine(k) ==
    /\ IsLive(Session)
    /\ ganache.minted + k <= MaxMinted
    /\ LET c == mine(Call, k) IN
       /\ ganache' = c.g
       /\ clast' = ChainOutcome("mine", c, k, PyNone)
    /\ UNCHANGED <<session_vars, snap, err_vars, more_vars>>

Snapshot ==
    /\ IsLive(Session)
    /\ Len(ganache.snapshots) < MaxSnapshots
    /\ LET c == snapshot(Call) IN
       /\ ganache' = c.g
       /\ clast' = ChainOutcome("snapshot", c, 0, PyNone)
       /\ snap' = [id |-> c.result, number |-> LatestNumber(ganache),
                   hash |-> LatestHash(ganache), clean |-> TRUE]
    /\ UNCHANGED <<session_vars, err_vars, more_vars>>

\* The caller passes the identifier snapshot() returned last or another one
Revert ==
    /\ IsLive(Session)
    /\ \E snapshot_id \in RevertIds \cup {snap.id} :
          LET c == revert(Call, snapshot_id) IN
          /\ ganache' = c.g
          /\ clast' = ChainOutcome("revert", c, 0, snapshot_id)
          /\ snap' = [snap EXCEPT !.clean = FALSE]
    /\ UNCHANGED <<session_vars, err_vars, more_vars>>

\* The seconds a caller passes to set_timestamp()
Timestamps == {0, 1, 16, 1000}

SetTimestamp ==
    /\ IsLive(Session)
    /\ \E new_timestamp \in Timestamps :
          LET c == set_timestamp(Call, new_timestamp) IN
          /\ ganache' = c.g
          /\ clast' = ChainOutcome("set_timestamp", c, 0, PyInt(new_timestamp))
    /\ UNCHANGED <<session_vars, snap, err_vars, more_vars>>

\* A session connected on the port of the tests to a node it spawned
ConnectedSession ==
    /\ port = TestPort
    /\ web3 = [port |-> TestPort, ganache |-> TRUE]
    /\ process = {TestPort}
    /\ attempted_ports = <<TestPort>>
    /\ provider_settings = << >>
    /\ server_port = DEFAULT_PORT
    /\ net = [p \in Ports |-> IF p = TestPort THEN "ganache" ELSE "free"]
    /\ running = {TestPort}
    /\ supplied = TestPort
    /\ ever_connected = TRUE
    /\ fork_url = NoFork
    /\ last = Outcome("connect", Session, TestPort, {2})

\* The chain calls start on a fresh node that writes identifiers in either form
InitChain ==
    /\ ConnectedSession
    /\ ganache \in {NewNode("hex"), NewNode("int")}
    /\ snap = NoSnap
    /\ clast = NoCall
    /\ NoTranslation
    /\ NoOther

NextChain ==
    \/ \E k \in MineCounts : Mine(k)
    \/ Snapshot
    \/ Revert
    \/ SetTimestamp

SpecChain == InitChain /\ [][NextChain]_vars

---------------------------------------------------------------------------
(* The exceptions a session translates *)

Heads == {"", ganache_prefix, execution_reverted \o ganache_prefix, execution_reverted}

Reasons == {"Insufficient balance", "!authorized", "cannot revert twice", "x"}

Bodies ==
    {"", "revert", "revertfoo", "out of gas"} \cup {"revert " \o R : R \in Reasons}

\* Traces: one without frames, one ending in a RETURN, one ending in a REVERT
\* with nothing beyond its first four memory words, one ending in a REVERT
\* holding the data of a custom error
Traces ==
    {<< >>,
     <<[op |-> "RETURN", memory |-> <<"0x00", "0x00", "0x80", "0x00", "0x7b">>]>>,
     <<[op |-> "PUSH1", memory |-> << >>],
       [op |-> "REVERT", memory |-> <<"0x00", "0x00", "0x80", "0x00">>]>>,
     <<[op |-> "REVERT", memory |-> <<"0x00", "0x00", "0x80", "0x00", "0x82b42900", "0x01">>]>>}

DataKinds == {"absent", "nohash", "hash", "other"}

Payloads ==
    {[kind |-> "dict", has_message |-> TRUE, message |-> h \o b, data |-> d,
      in_kwargs |-> kw, trace |-> tr] :
        h \in Heads, b \in Bodies, d \in DataKinds, kw \in BOOLEAN, tr \in Traces}
    \cup {[kind |-> "dict", has_message |-> FALSE, message |-> "", data |-> d,
           in_kwargs |-> kw, trace |-> tr] :
            d \in DataKinds, kw \in BOOLEAN, tr \in Traces}
    \cup {[NoPayload EXCEPT !.kind = k, !.message = h \o b, !.in_kwargs = kw, !.trace = tr] :
            k \in {"str"}, h \in Heads, b \in Bodies, kw \in BOOLEAN, tr \in Traces}
    \cup {[NoPayload EXCEPT !.kind = k, !.in_kwargs = kw, !.trace = tr] :
            k \in {"noargs", "other"}, kw \in BOOLEAN, tr \in Traces}

\* An exception reaches the session and is translated
Translate ==
    /\ \E e \in Payloads :
          /\ payload' = e
          /\ verr' = get_virtual_machine_error(e)
    /\ UNCHANGED <<session_vars, chain_vars, more_vars>>

InitErr == ConnectedSession /\ NoChainCall /\ NoTranslation /\ NoOther

NextErr == Translate

SpecErr == InitErr /\ [][NextErr]_vars

---------------------------------------------------------------------------
(* The call tree of a transaction *)

BaseGas == 21000
ZeroByteGas == 4
NonZeroByteGas == 16
MaxData == 2

\* Truth value of a Python value in a condition
Truthy(v) ==
    CASE v.type = "none" -> FALSE
      [] v.type = "str" -> v.s # << >>
      [] OTHER -> v.n # 0

\* Mutant of data_gas: every byte of the calldata costs the same
RECURSIVE data_gas_Flat(_)
data_gas_Flat(data) ==
    IF data = << >> THEN 0 ELSE NonZeroByteGas + data_gas_Flat(Tail(data))

\* sum([4 if x == 0 else 16 for x in receipt.data])
RECURSIVE data_gas(_)
data_gas(data) ==
    IF data = << >> THEN 0
    ELSE (IF Head(data) = 0 THEN ZeroByteGas ELSE NonZeroByteGas) + data_gas(Tail(data))

\* The root node get_calltree_from_geth_trace returns: its failed flag is what
\* the frames of the trace made of it
get_calltree_from_geth_trace(rc, gas_cost, call_type) ==
    [built |-> TRUE, failed |-> rc.trace_failed, call_type |-> call_type,
     gas_cost |-> gas_cost]

\* Mutant of get_call_tree: the root keeps the failed flag the trace gave it
get_call_tree_NoReset(rc) ==
    get_calltree_from_geth_trace(rc, rc.gas_used - BaseGas - data_gas(rc.data),
        IF Truthy(rc.contract_address) THEN "CREATE" ELSE "CALL")

get_call_tree(rc) ==
    LET method_gas_cost == rc.gas_used - BaseGas - data_gas(rc.data)
        call_type == IF Truthy(rc.contract_address) THEN "CREATE" ELSE "CALL"
        evm_call == get_calltree_from_geth_trace(rc, method_gas_cost, call_type)
    IN [evm_call EXCEPT !.failed = rc.failed]

Bytes == {0, 1, 255}

RECURSIVE SeqsUpTo(_, _)
SeqsUpTo(S, n) ==
    IF n = 0 THEN {<< >>}
    ELSE LET shorter == SeqsUpTo(S, n - 1) IN
         shorter \cup {Append(q, x) : q \in shorter, x \in S}

\* The receipts of the transactions asked about, and what the trace of each
\* makes of the root call
Receipts ==
    {[data |-> d, gas_used |-> u, contract_address |-> a, failed |-> f,
      trace_failed |-> tf] :
        d \in SeqsUpTo(Bytes, MaxData), u \in {0, BaseGas, BaseGas + 100, 2 * BaseGas},
        a \in {PyNone, PyStr(<< >>), PyStr(<<"0", "x", "c", "0">>)},
        f \in BOOLEAN, tf \in BOOLEAN}

GetCallTree ==
    /\ \E rc \in Receipts :
          /\ receipt' = rc
          /\ call_tree' = get_call_tree(rc)
    /\ UNCHANGED <<session_vars, chain_vars, err_vars, multi_vars, trace_vars>>

InitTree == ConnectedSession /\ NoChainCall /\ NoTranslation /\ NoOther

NextTree == GetCallTree

SpecTree == InitTree /\ [][NextTree]_vars

---------------------------------------------------------------------------
(* The trace frames of a transaction *)

MaxGens == 3

\* The transactions asked about and the structLogs the node holds of each
TxnHashes == {"0xaa", "0xbb"}

structLogs(txn_hash) ==
    IF txn_hash = "0xaa"
    THEN <<[pc |-> 0, op |-> "PUSH1"], [pc |-> 2, op |-> "REVERT"]>>
    ELSE <<[pc |-> 0, op |-> "STOP"]>>

\* The generators made so far (each with the frames it read from the node and
\* the frames it has yielded) and the debug_traceTransaction requests sent
TraceState == [gens |-> gens, requests |-> trace_requests]

\* Mutant of get_transaction_trace: the request is sent when the call is made
get_transaction_trace_Eager(st, txn_hash) ==
    [gens |-> Append(st.gens, [hash |-> txn_hash, state |-> "created", pos |-> 0,
                               frames |-> structLogs(txn_hash), yielded |-> << >>]),
     requests |-> st.requests + 1]

\* A call of get_transaction_trace: a generator function runs none of its
\* body when called
get_transaction_trace(st, txn_hash) ==
    [st EXCEPT !.gens = Append(@, [hash |-> txn_hash, state |-> "created", pos |-> 0,
                                   frames |-> << >>, yielded |-> << >>])]

\* next() on generator i: the first one runs _get_transaction_trace up to its
\* first yield (the request is sent and the frames read), each one yields the
\* frame after the last or, with none left, ends the generator
next_frame(st, i) ==
    LET gen == st.gens[i]
        started == gen.state # "created"
        frames == IF started THEN gen.frames ELSE structLogs(gen.hash)
        requests == IF started THEN st.requests ELSE st.requests + 1
    IN IF gen.state = "done" THEN st
       ELSE IF gen.pos < Len(frames)
       THEN [gens |-> [st.gens EXCEPT ![i] =
                          [gen EXCEPT !.state = "suspended", !.pos = @ + 1,
                                      !.frames = frames,
                                      !.yielded = Append(@, frames[gen.pos + 1])]],
             requests |-> requests]
       ELSE [gens |-> [st.gens EXCEPT ![i] = [gen EXCEPT !.state = "done",
                                                         !.frames = frames]],
             requests |-> requests]

GetTransactionTrace ==
    /\ Len(gens) < MaxGens
    /\ \E txn_hash \in TxnHashes :
          LET st == get_transaction_trace(TraceState, txn_hash) IN
          gens' = st.gens /\ trace_requests' = st.requests
    /\ UNCHANGED <<session_vars, chain_vars, err_vars, multi_vars, tree_vars>>

NextFrame ==
    /\ \E i \in DOMAIN gens :
          LET st == next_frame(TraceState, i) IN
          /\ gens[i].state # "done"
          /\ gens' = st.gens /\ trace_requests' = st.requests
    /\ UNCHANGED <<session_vars, chain_vars, err_vars, multi_vars, tree_vars>>

InitTrace == ConnectedSession /\ NoChainCall /\ NoTranslation /\ NoOther

NextTrace == GetTransactionTrace \/ NextFrame

SpecTrace == InitTrace /\ [][NextTrace]_vars

---------------------------------------------------------------------------
(* Properties *)

AfterConnect == last.op = "connect"

Returned == last.op = "connect" /\ last.exc = "none"

\* C1, as stated: once the caller has supplied an explicit port p, every
\* connect() that returns leaves port = p and uri = "http://127.0.0.1:p",
\* whatever connect() and disconnect() calls came before.
C1_SuppliedPortAlwaysBound ==
    (Returned /\ supplied # NoPort) =>
        (port = supplied /\ (supplied = TestPort => uri(port) = "http://127.0.0.1:8555"))

\* C1, amended: a connect() that returns, called while the session holds the
\* port of the caller (the port attribute, else provider_settings["port"]),
\* leaves exactly that port bound and uri equal to "http://127.0.0.1:<port>";
\* provider_settings["port"] wins over the configured server port.
C1_HeldPortBound ==
    (Returned /\ last.asked \in Ports) =>
        /\ port = last.asked
        /\ last.asked = TestPort => uri(port) = "http://127.0.0.1:8555"
        /\ last.asked = DEFAULT_PORT => uri(port) = "http://127.0.0.1:8545"

C1_Witness ==
    /\ Returned /\ last.asked = TestPort /\ port = TestPort
    /\ server_port = DEFAULT_PORT /\ provider_settings = << >>
    /\ Len(attempted_ports) = 2 /\ last.ret

C4_ConnectThenDisconnect ==
    /\ (Returned /\ last.asked \in Ports) => last.ret
    /\ last.op = "disconnect" =>
          /\ web3 = NoWeb3 /\ port = NoPort /\ process = {}
          /\ last.owned \cap running = {}
          /\ ~last.ret
          /\ uri(port) = "GanacheProviderError"

C4_Witness ==
    /\ last.op = "disconnect" /\ last.owned = {TestPort} /\ ever_connected
    /\ net[TestPort] = "free"

\* C5, as stated: a connect() on a session that is connected already spawns no
\* subprocess and leaves the port, the connection and the owned process as
\* they were.
C5_ConnectIdempotent ==
    (Returned /\ last.was_connected) =>
        /\ last.spawned = 0
        /\ port = last.asked
        /\ web3 = [port |-> last.asked, ganache |-> TRUE]
        /\ process = last.owned

\* C6, as stated: an "auto" session whose attempted ports do not contain the
\* default port is bound to the default port, without a random draw.
C6_AutoPrefersDefault ==
    (AfterConnect /\ last.auto /\ ~InList(DEFAULT_PORT, last.att_at_pick)) =>
        (last.picked = DEFAULT_PORT /\ last.draws = 0)

\* C7: a port bound by automatic selection was not among the attempted ports
\* when it was chosen, is the default port or lies in 49152..60999, and is
\* appended to the attempted ports whatever the launch then does.
C7_AutoPortFresh ==
    (AfterConnect /\ last.picked # NoPort) =>
        /\ ~InList(last.picked, last.att_at_pick)
        /\ \/ last.picked = DEFAULT_PORT
           \/ last.picked \in EPHEMERAL_PORTS_START .. EPHEMERAL_PORTS_END
        /\ attempted_ports = Append(last.att_at_pick, last.picked)

C7_Witness ==
    /\ AfterConnect /\ last.picked # NoPort /\ last.draws = max_attempts
    /\ last.att_at_pick # << >> /\ last.spawned = 1

\* C8, as stated: when every draw collides the selection fails with
\* GanacheProviderError listing the attempted ports, binds no port and spawns
\* nothing.
C8_ExhaustionReported ==
    (AfterConnect /\ last.auto /\ last.picked = NoPort) =>
        /\ last.exc = "GanacheProviderError"
        /\ last.msg = last.att_at_pick
        /\ port = NoPort /\ last.spawned = 0

\* C9, as stated: a transient subprocess error is surfaced only after the
\* configured number of start attempts.
C9_TransientRetried ==
    (AfterConnect /\ last.exc = "RPCTimeoutError") =>
        \A n \in last.process_attempts : last.starts = n

\* C10: when the executable is not found, connect() raises
\* GanacheNotInstalledError from its first start attempt and makes no other.
C10_NotInstalledNotRetried ==
    (AfterConnect /\ last.not_found > 0) =>
        /\ last.exc = "GanacheNotInstalledError"
        /\ last.starts = 1 /\ last.not_found = 1
        /\ last.spawned = 0 /\ last.retries = 0

C10_Witness ==
    /\ AfterConnect /\ last.not_found = 1 /\ last.asked = NoPort
    /\ last.process_attempts = {2} /\ port = NoPort

C12_ForeignOnAutoPortRetried ==
    (AfterConnect /\ last.auto /\ last.found = "foreign") =>
        \/ last.exc = "none"
        \/ \A n \in last.process_attempts : last.starts = n

\* C13, as stated: whenever connect() ends by raising, the session holds no
\* port, no connection handle and no subprocess.
C13_FailedConnectUninitialized ==
    (AfterConnect /\ last.exc # "none") =>
        (port = NoPort /\ web3 = NoWeb3 /\ process = {})

\* C14: mine(k) on a connected session issues k requests "evm_mine" and no
\* other (none when k <= 0); the number of the latest block afterwards is the
\* number before plus the number of requests, never lower.
C14_MineAdvancesByK ==
    clast.op = "mine" =>
        LET n == IF clast.k > 0 THEN clast.k ELSE 0 IN
        /\ clast.exc = "none"
        /\ Len(clast.log) = n
        /\ \A i \in DOMAIN clast.log : clast.log[i] = "evm_mine"
        /\ LatestNumber(ganache) = clast.number + n
        /\ LatestNumber(ganache) >= clast.number

C14_Witness ==
    /\ clast.op = "mine" /\ clast.k = 2 /\ clast.number = 1
    /\ LatestNumber(ganache) = 3 /\ Len(clast.log) = 2

\* C15: snapshot() returns a str; revert() of that str, after mine() calls only,
\* is accepted by the node and leaves the latest block with the number and the
\* hash it had when the snapshot was taken.
C15_SnapshotRevertRestores ==
    /\ clast.op = "snapshot" => (clast.result.type = "str" /\ snap.id = clast.result)
    /\ (clast.op = "revert" /\ clast.of_snap) =>
          /\ clast.exc = "none"
          /\ clast.result = PyBool(TRUE)
          /\ LatestNumber(ganache) = snap.number
          /\ LatestHash(ganache) = snap.hash

C15_Witness ==
    /\ clast.op = "revert" /\ clast.of_snap /\ ganache.id_form = "int"
    /\ clast.number = snap.number + 2 /\ snap.number = 1
    /\ clast.hash # snap.hash /\ LatestHash(ganache) = snap.hash

\* C16, as stated: revert() of an identifier that names no snapshot of the node
\* raises nothing, returns False and leaves the chain as it was.
C16_UnknownSnapshotFalse ==
    (clast.op = "revert" /\ ~clast.known) =>
        /\ clast.exc = "none"
        /\ clast.result = PyBool(FALSE)
        /\ ganache.chain = clast.chain

Translated == verr # NoErr

\* The payload has a message: a str, or a dict with the key "message"
HasMessage == payload.kind = "str" \/ (payload.kind = "dict" /\ payload.has_message)

\* The message is the Ganache prefix, preceded or not by "execution reverted: ",
\* followed by "revert" and nothing else
BareRevert(m) ==
    m \in {ganache_prefix \o "revert", execution_reverted \o ganache_prefix \o "revert"}

\* ... followed by "revert " and a text that is not empty
RevertWithReason(m) ==
    \E i \in DOMAIN prefixes :
        StartsWith(m, prefixes[i] \o "revert ") /\ Len(m) > Len(prefixes[i] \o "revert ")

\* C17, as stated: a payload, dict or str, whose message is a bare revert is
\* translated to a ContractLogicError without a revert reason.
C17_BareRevertNoReason ==
    (Translated /\ HasMessage /\ BareRevert(payload.message)) =>
        (verr.cls = "ContractLogicError" /\ ~verr.has_reason)

\* C18, as stated: a payload whose message is the Ganache prefix, "revert " and a
\* reason R is translated to a ContractLogicError whose revert reason is R.
C18_ReasonExact ==
    \A R \in Reasons :
        (Translated /\ HasMessage /\ payload.message = ganache_prefix \o "revert " \o R) =>
            (verr.cls = "ContractLogicError" /\ verr.has_reason /\ verr.reason = R)

\* C19, as stated: every payload that is neither a bare revert nor a revert with
\* a reason is translated to a VirtualMachineError that is not a
\* ContractLogicError and carries the message of the payload, if it has one,
\* unchanged.
C19_OtherIsPlainVmError ==
    (Translated /\ ~(HasMessage /\ (BareRevert(payload.message)
                                     \/ RevertWithReason(payload.message)))) =>
        /\ verr.cls = "VirtualMachineError"
        /\ (HasMessage /\ payload.message # "") =>
              (~verr.base_err /\ verr.message = payload.message)

\* C20: when a fork session builds its launch command while the upstream URL,
\* "localhost" replaced by "127.0.0.1", equals the uri of the session, connect()
\* raises GanacheProviderError and no subprocess is spawned; a --fork.url
\* argument that is emitted is the upstream URL and does not, so normalised,
\* equal the uri of the session.
C20_SelfForkRefused ==
    /\ (AfterConnect /\ fork_url # NoFork
        /\ last.built_uri = Replace(fork_url, "localhost", "127.0.0.1")) =>
          /\ last.exc = "GanacheProviderError"
          /\ last.spawned = 0 /\ last.fork_arg = ""
    /\ (AfterConnect /\ last.fork_arg # "") =>
          /\ last.fork_arg = fork_url
          /\ Replace(last.fork_arg, "localhost", "127.0.0.1") # last.built_uri

C20_Witness ==
    /\ AfterConnect /\ fork_url = "http://localhost:8545"
    /\ last.built_uri = "http://127.0.0.1:8545"
    /\ last.exc = "GanacheProviderError" /\ last.spawned = 0 /\ port = DEFAULT_PORT

\* C21: when a fork session connects and its genesis block differs from the one
\* of the upstream node, connect() logs the warning and raises nothing; the
\* session is connected, with its port, its handle on the Ganache node of that
\* port and the subprocess it spawned, if it spawned one.
C21_GenesisMismatchWarnsOnly ==
    (AfterConnect /\ last.warned) =>
        /\ last.exc = "none" /\ last.ret
        /\ port \in Ports /\ web3 = [port |-> port, ganache |-> TRUE]
        /\ last.spawned = 1 => (process = {port} /\ port \in running)

C21_Witness ==
    /\ AfterConnect /\ last.warned /\ last.exc = "none" /\ last.spawned = 1
    /\ process = {DEFAULT_PORT} /\ fork_url = "https://mainnet.example.org/v3/key"

\* C22: a connect(), disconnect() or mine() of one session that stays off the
\* port of the other session leaves the other session with its port, its
\* connection handle, its process and its node with its chain; the attempted
\* ports are the one thing the two sessions may have in common.
C22_SessionsIndependent ==
    (acted.actor # 0 /\ acted.distinct) => OtherState(acted.actor) = acted.before

C22_Witness ==
    /\ acted.actor = 1 /\ acted.op = "disconnect" /\ acted.distinct
    /\ peer.shares /\ peer.web3 = [port |-> DEFAULT_PORT, ganache |-> TRUE]
    /\ peer.process = {DEFAULT_PORT} /\ running = {DEFAULT_PORT}
    /\ Len(chains[TestPort].chain) = 2 /\ Len(chains[DEFAULT_PORT].chain) = 2

\* C23: the root of the call tree is failed exactly when the receipt is,
\* whatever the trace made of it, and its call type is CREATE exactly when the
\* receipt names a contract address, CALL otherwise.
C23_RootFollowsReceipt ==
    call_tree.built =>
        /\ call_tree.failed = receipt.failed
        /\ call_tree.call_type =
              IF receipt.contract_address.type = "str" /\ Len(receipt.contract_address.s) > 0
              THEN "CREATE" ELSE "CALL"

C23_Witness ==
    /\ call_tree.built /\ ~call_tree.failed /\ receipt.trace_failed
    /\ call_tree.call_type = "CREATE"

\* C24: the gas cost handed to the call tree is gas_used - 21000 - (4 for
\* each zero byte of the calldata + 16 for each other byte).
C24_MethodGasCost ==
    call_tree.built =>
        LET zeros == Cardinality({i \in DOMAIN receipt.data : receipt.data[i] = 0})
            others == Cardinality({i \in DOMAIN receipt.data : receipt.data[i] # 0})
        IN call_tree.gas_cost = receipt.gas_used - 21000 - (4 * zeros + 16 * others)

C24_Witness ==
    /\ call_tree.built /\ receipt.data = <<0, 255>> /\ receipt.gas_used = 21100
    /\ call_tree.gas_cost = 80

\* C25: revert(id) sends one evm_revert, with the integer the digits of id
\* write when id is a string of digits and with id itself in every other case;
\* set_timestamp(t) sends one evm_setTime with the value t * 1000.
C25_DispatchedValues ==
    /\ clast.op = "revert" =>
          /\ clast.exc = "none"
          /\ clast.log = <<"evm_revert">>
          /\ clast.sent =
                IF clast.arg.type = "str" /\ clast.arg.s # << >>
                   /\ \A i \in DOMAIN clast.arg.s : clast.arg.s[i] \in DecimalChars
                THEN <<PyInt(FromBase(clast.arg.s, 10))>>
                ELSE <<clast.arg>>
    /\ clast.op = "set_timestamp" =>
          /\ clast.exc = "none"
          /\ clast.log = <<"evm_setTime">>
          /\ Len(clast.sent) = 1
          /\ FromBase(SubSeq(clast.sent[1].s, 3, Len(clast.sent[1].s)), 16)
                = clast.arg.n * 1000

\* C26: the debug_traceTransaction requests sent are one for each call of
\* get_transaction_trace whose result was iterated and none for the others, and
\* each result yields the frames of its transaction from the first on, to the
\* last when it is consumed, whatever was done with the other results.
C26_LazyRestartable ==
    /\ trace_requests = Cardinality({i \in DOMAIN gens : gens[i].state # "created"})
    /\ \A i \in DOMAIN gens :
          /\ gens[i].yielded = SubSeq(structLogs(gens[i].hash), 1, Len(gens[i].yielded))
          /\ gens[i].state = "created" => gens[i].yielded = << >>
          /\ gens[i].state = "done" => gens[i].yielded = structLogs(gens[i].hash)

C26_Witness ==
    /\ Len(gens) = 3 /\ trace_requests = 2
    /\ \A i \in DOMAIN gens : gens[i].hash = "0xaa"
    /\ gens[1].state = "done" /\ gens[2].state = "created" /\ gens[3].state = "done"
    /\ Len(gens[3].yielded) = 2

\* C27: whatever the exception holds, get_virtual_machine_error raises nothing
\* and returns a VirtualMachineError or a ContractLogicError, and a trace the
\* caller passed can be read in full from the arguments of the error returned.
C27_TranslationTotal ==
    Translated =>
        /\ verr.raises = "none"
        /\ verr.cls \in {"VirtualMachineError", "ContractLogicError"}
        /\ payload.in_kwargs => (verr.has_trace /\ verr.trace = payload.trace)

====
